---- MODULE Spec2Model ----
\* Model of check_knots_spam.py: the script classifier is_standard_script and
\* the ordered checks of check_standard_tx.
\*
\* Two specifications share the variables:
\*   Spec          check_standard_tx from its entry (line 139) to its return;
\*   SpecClassify  is_standard_script applied to one script (lines 51-75).
\* Line 148 assigns reject_parasites = True and line 151 returns, so every run
\* of check_standard_tx ends in check 1 or check 2. The steps that model lines
\* 157-165 and 180-202, with the lookups of lines 82-126, follow the source
\* text; no run reaches them and they are part of no specification.
EXTENDS Integers, Sequences, FiniteSets, TLC

VARIABLES
    tx,                 \* the transaction being checked (line 233)
    utxo,               \* node: per input, the previous output's value or Missing
    mempool,            \* node: the transaction's mempool entry, or Absent
    pc,                 \* position in the code
    ret,                \* what check_standard_tx returned or raised
    out,                \* lines printed so far
    trail,              \* numbers of the checks evaluated so far, in order
    idx,                \* get_transaction_fee: position in tx.vin
    total_input_value,  \* get_transaction_fee: line 83
    fee,                \* check_standard_tx: line 158
    ancestor_count,     \* line 181
    ancestor_size,      \* line 187
    descendant_count,   \* line 193
    descendant_size,    \* line 199
    script,             \* SpecClassify: the argument of is_standard_script
    result              \* SpecClassify: its result

vars == <<tx, utxo, mempool, pc, ret, out, trail, idx, total_input_value, fee,
          ancestor_count, ancestor_size, descendant_count, descendant_size,
          script, result>>

-----------------------------------------------------------------------------
\* Bounds of the model.

MaxOutputs == 2
MaxInputs == 2

-----------------------------------------------------------------------------
\* Program constants (lines 41-49) and the opcodes imported on line 25.

MAX_STANDARD_TX_WEIGHT == 400000
MAX_UNCONFIRMED_ANCESTORS == 25
MAX_ANCESTOR_SIZE_KB == 101
MAX_DESCENDANT_COUNT == 25
MAX_DESCENDANT_SIZE_KB == 101

OP_RETURN == 106
OP_DUP == 118
OP_EQUAL == 135
OP_EQUALVERIFY == 136
OP_HASH160 == 169
OP_CHECKSIG == 172
PUSH_20 == 20

\* line 148
reject_parasites_off == FALSE
reject_parasites == TRUE

MSG_UNRECOGNISED == "Rejected: Unrecognised receiver script"
MSG_PARASITE == "Rejected: Parasite transaction"
MSG_PREV_TX == "Error fetching previous transaction"
MSG_LOW_FEE == "Rejected: Low fee rate"
MSG_ANCESTOR_COUNT == "Rejected: Too many unconfirmed ancestors"
MSG_ANCESTOR_SIZE == "Rejected: Ancestor size too large"
MSG_DESCENDANT_COUNT == "Rejected: Too many unconfirmed descendants"
MSG_DESCENDANT_SIZE == "Rejected: Descendant size too large"
MSG_ERR_ANCESTOR_COUNT == "Error fetching ancestor count"
MSG_ERR_ANCESTOR_SIZE == "Error fetching ancestor size"
MSG_ERR_DESCENDANT_COUNT == "Error fetching descendant count"
MSG_ERR_DESCENDANT_SIZE == "Error fetching descendant size"

-----------------------------------------------------------------------------
\* is_standard_script, lines 51-75. A script is a sequence of bytes; Python
\* indexes from 0. Each comparison yields "True", "False" or, when the index is
\* past the end of the script, "IndexError". Python's `and` evaluates left to
\* right and stops at the first operand that is not true.

ByteIs(s, i, op) ==
    IF i >= Len(s) THEN "IndexError"
    ELSE IF s[i + 1] = op THEN "True" ELSE "False"

LenIs(s, n) == IF Len(s) = n THEN "True" ELSE "False"

LenPositive(s) == IF Len(s) > 0 THEN "True" ELSE "False"

RECURSIVE AndChain(_)
AndChain(cs) ==
    IF cs = <<>> THEN "True"
    ELSE IF Head(cs) = "True" THEN AndChain(Tail(cs))
    ELSE Head(cs)

\* lines 54-59
MatchesP2PKH(s) ==
    AndChain(<<LenIs(s, 25),
               ByteIs(s, 0, OP_DUP),
               ByteIs(s, 1, OP_HASH160),
               ByteIs(s, 2, PUSH_20),
               ByteIs(s, 23, OP_EQUALVERIFY),
               ByteIs(s, 24, OP_CHECKSIG)>>)

\* lines 63-66
MatchesP2SH(s) ==
    AndChain(<<LenIs(s, 23),
               ByteIs(s, 0, OP_HASH160),
               ByteIs(s, 1, PUSH_20),
               ByteIs(s, 22, OP_EQUALVERIFY)>>)

\* line 72, and the same line without its length test
MatchesOpReturnUnguarded(s) == AndChain(<<ByteIs(s, 0, OP_RETURN)>>)
MatchesOpReturn(s) == AndChain(<<LenPositive(s), ByteIs(s, 0, OP_RETURN)>>)

\* An `if` whose condition raises leaves the function with the exception.
is_standard_script(s) ==
    LET a == MatchesP2PKH(s)
        b == MatchesP2SH(s)
        c == MatchesOpReturn(s)
    IN  IF a # "False" THEN a
        ELSE IF b # "False" THEN b
        ELSE IF c # "False" THEN c
        ELSE "False"

-----------------------------------------------------------------------------
\* Scripts the model is run on.

\* A script of n bytes: pre at its start, suf at its end, fill in between.
ScriptOf(n, pre, fill, suf) ==
    [i \in 1..n |->
        IF i <= Len(pre) THEN pre[i]
        ELSE IF i > n - Len(suf) THEN suf[i - (n - Len(suf))]
        ELSE fill]

ScriptLens == {0, 1, 2, 3, 22, 23, 24, 25, 26}
ScriptFills == {0, 136}
ScriptPrefixes ==
    { <<>>,
      <<OP_DUP, OP_HASH160, PUSH_20>>,
      <<OP_DUP, OP_HASH160, 19>>,
      <<OP_DUP, OP_RETURN, PUSH_20>>,
      <<OP_HASH160, PUSH_20>>,
      <<OP_HASH160, 19>>,
      <<OP_RETURN>>,
      <<OP_RETURN, OP_HASH160, PUSH_20>>,
      <<0, PUSH_20>>,
      <<33>> }
ScriptSuffixes ==
    { <<>>,
      <<OP_EQUALVERIFY, OP_CHECKSIG>>,
      <<OP_EQUAL, OP_CHECKSIG>>,
      <<OP_EQUAL>>,
      <<OP_EQUALVERIFY>>,
      <<OP_CHECKSIG>> }

ScriptSamples ==
    { ScriptOf(n, p, f, q) :
        n \in ScriptLens, p \in ScriptPrefixes, f \in ScriptFills, q \in ScriptSuffixes }

P2PKHScript == ScriptOf(25, <<OP_DUP, OP_HASH160, PUSH_20>>, 0, <<OP_EQUALVERIFY, OP_CHECKSIG>>)
P2SHScript == ScriptOf(23, <<OP_HASH160, PUSH_20>>, 0, <<OP_EQUAL>>)
P2SHVerifyScript == ScriptOf(23, <<OP_HASH160, PUSH_20>>, 0, <<OP_EQUALVERIFY>>)
DataScript == <<OP_RETURN, 4, 1, 2, 3, 4>>
EmptyScript == <<>>
P2WPKHScript == ScriptOf(22, <<0, PUSH_20>>, 0, <<>>)
BarePubkeyScript == ScriptOf(35, <<33>>, 2, <<OP_CHECKSIG>>)

TxScripts ==
    { P2PKHScript, P2SHScript, P2SHVerifyScript, DataScript, EmptyScript,
      P2WPKHScript, BarePubkeyScript }

-----------------------------------------------------------------------------
\* Transactions and the node's answers.

OutValues == {1000}
InValues == {5000}
Weights == {400}

\* getrawtransaction (line 86): the previous output is found, or the RPC raises.
NotFound == [found |-> FALSE, nValue |-> 0]
UtxoStates(vals) == {NotFound} \cup [found : {TRUE}, nValue : vals]

\* getmempoolentry (lines 98, 106, 114, 122): an entry, or the RPC raises.
Absent ==
    [found |-> FALSE, ancestorcount |-> 0, ancestorsize |-> 0,
     descendantcount |-> 0, descendantsize |-> 0]
Entries(counts, sizes) ==
    [found : {TRUE}, ancestorcount : counts, ancestorsize : sizes,
     descendantcount : counts, descendantsize : sizes]
QuietEntry ==
    [found |-> TRUE, ancestorcount |-> 1, ancestorsize |-> 250,
     descendantcount |-> 1, descendantsize |-> 250]

Outputs(scripts, vals) ==
    UNION { [1..n -> [nValue : vals, scriptPubKey : scripts]] : n \in 0..MaxOutputs }

\* tx.vin holds, per input, the number of the previous output it spends.
Inputs == { [i \in 1..n |-> i] : n \in 1..MaxInputs }

Txs(scripts, outvals, weights) ==
    [vin : Inputs, vout : Outputs(scripts, outvals), weight : weights]

\* Python values, as far as lines 158-163 tell them apart: a rational num/den
\* (den > 0) tagged with its type. A float is a double: where the double
\* nearest to a decimal literal lies above num/den, above is 1, and the value
\* is num/den plus an excess smaller than the gap between any two rationals
\* formed here (the literal of line 163 is 1/100000 + 8.2e-22).
PyNone == [type |-> "NoneType", num |-> 0, den |-> 1, above |-> 0]
PyTypeError == [type |-> "TypeError", num |-> 0, den |-> 1, above |-> 0]
PyZeroDivisionError == [type |-> "ZeroDivisionError", num |-> 0, den |-> 1, above |-> 0]
PyInt(n) == [type |-> "int", num |-> n, den |-> 1, above |-> 0]
\* a float that is exactly n/d, and the double just above n/d
PyFloat(n, d) == [type |-> "float", num |-> n, den |-> d, above |-> 0]
PyFloatAbove(n, d) == [type |-> "float", num |-> n, den |-> d, above |-> 1]
IsNumber(v) == v.type \in {"int", "float", "Decimal"}

\* Values of the variables a specification does not use.
NoTx == [vin |-> <<>>, vout |-> <<>>, weight |-> 0]
Unbound == 0 - 1

-----------------------------------------------------------------------------
\* check_standard_tx, lines 139-151.

\* The result of the loop of lines 141-145 when it looks at the outputs
\* numbered in which: "pass", or what is_standard_script gave for the first of
\* them that is not standard.
Check1Among(vout, which) ==
    LET bad == { i \in which : is_standard_script(vout[i].scriptPubKey) # "True" }
    IN  IF bad = {} THEN "pass"
        ELSE is_standard_script(
                 vout[CHOOSE i \in bad : \A j \in bad : i <= j].scriptPubKey)

Check1FirstOutputOnly(t) == Check1Among(t.vout, DOMAIN t.vout \cap {1})
Check1LastOutputOnly(t) == Check1Among(t.vout, DOMAIN t.vout \cap {Len(t.vout)})
Check1Result(t) == Check1Among(t.vout, DOMAIN t.vout)

Init ==
    /\ tx \in Txs(TxScripts, OutValues, Weights)
    /\ utxo \in [DOMAIN tx.vin -> UtxoStates(InValues)]
    /\ mempool \in {Absent, QuietEntry}
    /\ pc = "check1"
    /\ ret = "none"
    /\ out = <<>>
    /\ trail = <<>>
    /\ idx = 0
    /\ total_input_value = 0
    /\ fee = PyNone
    /\ ancestor_count = Unbound
    /\ ancestor_size = Unbound
    /\ descendant_count = Unbound
    /\ descendant_size = Unbound
    /\ script = <<>>
    /\ result = "none"

\* lines 140-145
Check1 ==
    /\ pc = "check1"
    /\ trail' = Append(trail, 1)
    /\ LET r == Check1Result(tx)
       IN  IF r = "pass"
           THEN /\ pc' = "check2"
                /\ UNCHANGED <<ret, out>>
           ELSE IF r = "False"
           THEN /\ out' = Append(out, MSG_UNRECOGNISED)
                /\ ret' = "False"
                /\ pc' = "done"
           ELSE /\ ret' = r
                /\ pc' = "done"
                /\ UNCHANGED out
    /\ UNCHANGED <<tx, utxo, mempool, idx, total_input_value, fee,
                   ancestor_count, ancestor_size, descendant_count,
                   descendant_size, script, result>>

\* lines 147-151
Check2 ==
    /\ pc = "check2"
    /\ trail' = Append(trail, 2)
    /\ IF reject_parasites
       THEN /\ out' = Append(out, MSG_PARASITE)
            /\ ret' = "False"
            /\ pc' = "done"
       ELSE /\ pc' = "check3"
            /\ UNCHANGED <<ret, out>>
    /\ UNCHANGED <<tx, utxo, mempool, idx, total_input_value, fee,
                   ancestor_count, ancestor_size, descendant_count,
                   descendant_size, script, result>>

Next == Check1 \/ Check2

Spec == Init /\ [][Next]_vars

-----------------------------------------------------------------------------
\* is_standard_script applied to one script.

InitClassify ==
    /\ script \in ScriptSamples
    /\ result = "none"
    /\ pc = "classify"
    /\ tx = NoTx
    /\ utxo = <<>>
    /\ mempool = Absent
    /\ ret = "none"
    /\ out = <<>>
    /\ trail = <<>>
    /\ idx = 0
    /\ total_input_value = 0
    /\ fee = PyNone
    /\ ancestor_count = Unbound
    /\ ancestor_size = Unbound
    /\ descendant_count = Unbound
    /\ descendant_size = Unbound

Classify ==
    /\ pc = "classify"
    /\ result' = is_standard_script(script)
    /\ pc' = "classified"
    /\ UNCHANGED <<tx, utxo, mempool, ret, out, trail, idx, total_input_value,
                   fee, ancestor_count, ancestor_size, descendant_count,
                   descendant_size, script>>

NextClassify == Classify

SpecClassify == InitClassify /\ [][NextClassify]_vars

-----------------------------------------------------------------------------
\* Check 4, lines 157-165, with get_transaction_fee, lines 82-94.

RECURSIVE SumValues(_)
SumValues(vout) ==
    IF vout = <<>> THEN 0 ELSE Head(vout).nValue + SumValues(Tail(vout))

\* Decimal(x), line 162
PyDecimal(v) == [type |-> "Decimal", num |-> v.num, den |-> v.den, above |-> 0]

\* a / b. int / int is a float; a Decimal divides by an int or a Decimal; a
\* Decimal and a float have no common division and Python raises TypeError.
\* The operands of line 162 are exact (an int, a Decimal of an int, and
\* weight / 4, a division by a power of two), and so is the quotient here.
TrueDiv(a, b) ==
    IF ~IsNumber(a) THEN a
    ELSE IF ~IsNumber(b) THEN b
    ELSE IF {a.type, b.type} = {"Decimal", "float"} THEN PyTypeError
    ELSE IF b.num = 0 THEN PyZeroDivisionError
    ELSE [type |-> IF "Decimal" \in {a.type, b.type} THEN "Decimal" ELSE "float",
          num |-> IF b.num > 0 THEN a.num * b.den ELSE 0 - a.num * b.den,
          den |-> IF b.num > 0 THEN a.den * b.num ELSE 0 - a.den * b.num,
          above |-> 0]

\* a < b for numbers; Python orders a Decimal against a float by their exact
\* values, so a Decimal equal to num/den is below the double just above it.
Less(a, b) ==
    \/ a.num * b.den < b.num * a.den
    \/ a.num * b.den = b.num * a.den /\ a.above < b.above

\* line 162: Decimal(fee) / (weight / 4)
fee_rate(f, weight) == TrueDiv(PyDecimal(f), TrueDiv(PyInt(weight), PyInt(4)))

\* line 163: the literal 0.00001000, whose double is
\* 5902958103587057 / 590295810358705651712, just above 1/100000
MIN_FEE_RATE == PyFloatAbove(1, 100000)

\* line 158 calls get_transaction_fee; line 83
Check4Call ==
    /\ pc = "check4"
    /\ trail' = Append(trail, 4)
    /\ total_input_value' = 0
    /\ idx' = 1
    /\ pc' = "fee_loop"
    /\ UNCHANGED <<tx, utxo, mempool, ret, out, fee, ancestor_count,
                   ancestor_size, descendant_count, descendant_size, script, result>>

\* lines 84-88: the RPC answers
FetchPrevOk ==
    /\ pc = "fee_loop"
    /\ idx <= Len(tx.vin)
    /\ utxo[tx.vin[idx]].found
    /\ total_input_value' = total_input_value + utxo[tx.vin[idx]].nValue
    /\ idx' = idx + 1
    /\ UNCHANGED <<tx, utxo, mempool, pc, ret, out, trail, fee, ancestor_count,
                   ancestor_size, descendant_count, descendant_size, script, result>>

\* lines 89-91: the RPC raises JSONRPCException; get_transaction_fee returns None
FetchPrevFail ==
    /\ pc = "fee_loop"
    /\ idx <= Len(tx.vin)
    /\ ~utxo[tx.vin[idx]].found
    /\ out' = Append(out, MSG_PREV_TX)
    /\ fee' = PyNone
    /\ pc' = "check4_none"
    /\ UNCHANGED <<tx, utxo, mempool, ret, trail, idx, total_input_value,
                   ancestor_count, ancestor_size, descendant_count,
                   descendant_size, script, result>>

\* lines 93-94
FeeReturn ==
    /\ pc = "fee_loop"
    /\ idx > Len(tx.vin)
    /\ fee' = PyInt(total_input_value - SumValues(tx.vout))
    /\ pc' = "check4_none"
    /\ UNCHANGED <<tx, utxo, mempool, ret, out, trail, idx, total_input_value,
                   ancestor_count, ancestor_size, descendant_count,
                   descendant_size, script, result>>

\* lines 159-160
Check4None ==
    /\ pc = "check4_none"
    /\ IF fee.type = "NoneType"
       THEN /\ ret' = "False"
            /\ pc' = "done"
       ELSE /\ pc' = "check4_rate"
            /\ UNCHANGED ret
    /\ UNCHANGED <<tx, utxo, mempool, out, trail, idx, total_input_value, fee,
                   ancestor_count, ancestor_size, descendant_count,
                   descendant_size, script, result>>

\* lines 161-165; an exception leaves check_standard_tx
Check4Rate ==
    /\ pc = "check4_rate"
    /\ LET rate == fee_rate(fee, tx.weight)
       IN  IF ~IsNumber(rate)
           THEN /\ ret' = rate.type
                /\ pc' = "done"
                /\ UNCHANGED out
           ELSE IF Less(rate, MIN_FEE_RATE)
           THEN /\ out' = Append(out, MSG_LOW_FEE)
                /\ ret' = "False"
                /\ pc' = "done"
           ELSE /\ pc' = "check5"
                /\ UNCHANGED <<ret, out>>
    /\ UNCHANGED <<tx, utxo, mempool, trail, idx, total_input_value, fee,
                   ancestor_count, ancestor_size, descendant_count,
                   descendant_size, script, result>>

-----------------------------------------------------------------------------
\* Checks 7-10, lines 180-202, with the lookups of lines 96-126. Each lookup
\* is one getmempoolentry call.

\* lines 96-102
get_ancestor_count(m) == IF m.found THEN m.ancestorcount ELSE 0
\* lines 104-110
get_ancestor_size(m) == IF m.found THEN m.ancestorsize ELSE 0
\* lines 112-118
get_descendant_count(m) == IF m.found THEN m.descendantcount ELSE 0
\* lines 120-126
get_descendant_size(m) == IF m.found THEN m.descendantsize ELSE 0

\* What a lookup prints when the RPC raises.
Printed(m, msg) == IF m.found THEN out ELSE Append(out, msg)
\* lines 180-184
Check7 ==
    /\ pc = "check7"
    /\ trail' = Append(trail, 7)
    /\ ancestor_count' = get_ancestor_count(mempool)
    /\ IF ancestor_count' >= MAX_UNCONFIRMED_ANCESTORS
       THEN /\ out' = Append(Printed(mempool, MSG_ERR_ANCESTOR_COUNT), MSG_ANCESTOR_COUNT)
            /\ ret' = "False"
            /\ pc' = "done"
       ELSE /\ out' = Printed(mempool, MSG_ERR_ANCESTOR_COUNT)
            /\ pc' = "check8"
            /\ UNCHANGED ret
    /\ UNCHANGED <<tx, utxo, mempool, idx, total_input_value, fee,
                   ancestor_size, descendant_count, descendant_size, script, result>>

\* lines 186-190
Check8 ==
    /\ pc = "check8"
    /\ trail' = Append(trail, 8)
    /\ ancestor_size' = get_ancestor_size(mempool)
    /\ IF ancestor_size' > MAX_ANCESTOR_SIZE_KB * 1000
       THEN /\ out' = Append(Printed(mempool, MSG_ERR_ANCESTOR_SIZE), MSG_ANCESTOR_SIZE)
            /\ ret' = "False"
            /\ pc' = "done"
       ELSE /\ out' = Printed(mempool, MSG_ERR_ANCESTOR_SIZE)
            /\ pc' = "check9"
            /\ UNCHANGED ret
    /\ UNCHANGED <<tx, utxo, mempool, idx, total_input_value, fee,
                   ancestor_count, descendant_count, descendant_size, script, result>>

\* lines 192-196
Check9 ==
    /\ pc = "check9"
    /\ trail' = Append(trail, 9)
    /\ descendant_count' = get_descendant_count(mempool)
    /\ IF descendant_count' >= MAX_DESCENDANT_COUNT
       THEN /\ out' = Append(Printed(mempool, MSG_ERR_DESCENDANT_COUNT), MSG_DESCENDANT_COUNT)
            /\ ret' = "False"
            /\ pc' = "done"
       ELSE /\ out' = Printed(mempool, MSG_ERR_DESCENDANT_COUNT)
            /\ pc' = "check10"
            /\ UNCHANGED ret
    /\ UNCHANGED <<tx, utxo, mempool, idx, total_input_value, fee,
                   ancestor_count, ancestor_size, descendant_size, script, result>>

\* lines 198-202
Check10 ==
    /\ pc = "check10"
    /\ trail' = Append(trail, 10)
    /\ descendant_size' = get_descendant_size(mempool)
    /\ IF descendant_size' > MAX_DESCENDANT_SIZE_KB * 1000
       THEN /\ out' = Append(Printed(mempool, MSG_ERR_DESCENDANT_SIZE), MSG_DESCENDANT_SIZE)
            /\ ret' = "False"
            /\ pc' = "done"
       ELSE /\ out' = Printed(mempool, MSG_ERR_DESCENDANT_SIZE)
            /\ pc' = "check11"
            /\ UNCHANGED ret
    /\ UNCHANGED <<tx, utxo, mempool, idx, total_input_value, fee,
                   ancestor_count, ancestor_size, descendant_count, script, result>>

-----------------------------------------------------------------------------
\* Properties.

\* The outputs the classifier does not recognise.
UnrecognisedOutputs(t) ==
    { i \in DOMAIN t.vout : is_standard_script(t.vout[i].scriptPubKey) = "False" }

\* The lowest-numbered check that fails for t among those check_standard_tx
\* gets to (0: none). Check 2 fails for every transaction.
FirstFailing(t) ==
    IF UnrecognisedOutputs(t) # {} THEN 1
    ELSE IF reject_parasites THEN 2
    ELSE 0

ReasonOf(k) == IF k = 1 THEN MSG_UNRECOGNISED ELSE MSG_PARASITE

SomePrevoutMissing == \E i \in DOMAIN tx.vin : ~utxo[tx.vin[i]].found

\* C1: check_standard_tx returns True only if no check fails; otherwise it
\* returns False having printed exactly one reason, that of the
\* lowest-numbered failing check, and having evaluated the checks 1..that one
\* and no later check.
C1_FirstFailingCheckDecides ==
    pc = "done" =>
        /\ ret \in {"True", "False"}
        /\ ret = "True" => FirstFailing(tx) = 0
        /\ ret = "False" =>
              /\ FirstFailing(tx) > 0
              /\ out = <<ReasonOf(FirstFailing(tx))>>
              /\ trail = [i \in 1..FirstFailing(tx) |-> i]

C1_Witness ==
    /\ pc = "done"
    /\ UnrecognisedOutputs(tx) = {2}
    /\ ret = "False"
    /\ out = <<MSG_UNRECOGNISED>>
    /\ trail = <<1>>

\* Scenario A: one output, exactly the P2PKH template; every previous output
\* known and the fee rate 4 * fee / weight above 0.00001 (for the integer
\* 4 * fee: above the whole part of weight / 100000); weight under the
\* limit; the transaction has no mempool ancestors or descendants.
ScenarioA ==
    /\ Len(tx.vout) = 1
    /\ tx.vout[1].scriptPubKey = P2PKHScript
    /\ ~SomePrevoutMissing
    /\ LET paid == SumValues([i \in DOMAIN tx.vin |-> utxo[tx.vin[i]]])
                   - SumValues(tx.vout)
       IN  4 * paid > tx.weight \div 100000
    /\ tx.weight <= MAX_STANDARD_TX_WEIGHT
    /\ mempool = Absent

\* C2: a Scenario A transaction is accepted (check_standard_tx returns True).
\* The code has no way to turn reject_parasites off: line 148 assigns True.
C2_ScenarioAAccepted ==
    (pc = "done" /\ ScenarioA) => ret = "True"

\* C3 as stated: every transaction is rejected with the reason of check 2.
C3_AlwaysPolicyDisabled ==
    pc = "done" => (ret = "False" /\ out = <<MSG_PARASITE>>)

\* C3 amended: every transaction whose outputs are all recognised by the
\* classifier (check 1 passes) leaves check 2 rejected with the reason of
\* check 2, whatever its previous outputs and mempool entry are.
C3_PolicyDisabledAfterCheck1 ==
    (pc \notin {"check1", "check2"} /\ UnrecognisedOutputs(tx) = {}) =>
        (pc = "done" /\ ret = "False" /\ out = <<MSG_PARASITE>>)

C3_Witness ==
    /\ pc = "done"
    /\ tx.vout # <<>>
    /\ UnrecognisedOutputs(tx) = {}
    /\ ~SomePrevoutMissing
    /\ out = <<MSG_PARASITE>>

\* C4: a transaction with at least one output the classifier does not
\* recognise is rejected with the reason of check 1, whatever else holds of it
\* and of the node.
C4_UnrecognisedDominates ==
    (pc = "done" /\ UnrecognisedOutputs(tx) # {}) =>
        (ret = "False" /\ out = <<MSG_UNRECOGNISED>>)

C4_Witness ==
    /\ pc = "done"
    /\ Len(tx.vout) = 2
    /\ UnrecognisedOutputs(tx) = {2}
    /\ SomePrevoutMissing
    /\ mempool.found
    /\ out = <<MSG_UNRECOGNISED>>

\* Scenario D: Scenario A, but the node cannot supply the previous output of
\* input 0.
ScenarioD ==
    /\ Len(tx.vout) = 1
    /\ tx.vout[1].scriptPubKey = P2PKHScript
    /\ ~utxo[tx.vin[1]].found
    /\ tx.weight <= MAX_STANDARD_TX_WEIGHT
    /\ mempool = Absent

\* C5: a Scenario D transaction does not end with a policy verdict (True or
\* False): the missing previous output is reported as an error of its own.
C5_MissingContextNotReject ==
    (pc = "done" /\ ScenarioD) => ret \notin {"True", "False"}

\* HASH160, push of 20 bytes, any 20 bytes, EQUAL: 23 bytes.
IsP2SHTemplate(s) ==
    /\ Len(s) = 23
    /\ s[1] = OP_HASH160
    /\ s[2] = PUSH_20
    /\ s[23] = OP_EQUAL

\* C7: every script of the P2SH form is classified as standard.
C7_P2SHRecognised ==
    (pc = "classified" /\ IsP2SHTemplate(script)) => result = "True"

\* The templates of is_standard_script that s matches.
TemplatesMatched(s) ==
    { k \in {"PayToPubkeyHash", "PayToScriptHash", "DataCarrier"} :
        "True" = (IF k = "PayToPubkeyHash" THEN MatchesP2PKH(s)
                  ELSE IF k = "PayToScriptHash" THEN MatchesP2SH(s)
                  ELSE MatchesOpReturn(s)) }

\* C9: is_standard_script gives True or False for every script and never an
\* error; no script matches two templates; the result is True exactly when a
\* template matches; the empty script gives False.
C9_ClassifyTotal ==
    pc = "classified" =>
        /\ result \in {"True", "False"}
        /\ Cardinality(TemplatesMatched(script)) <= 1
        /\ (result = "True") <=> (TemplatesMatched(script) # {})
        /\ Len(script) = 0 => result = "False"

C9_Witness ==
    /\ pc = "classified"
    /\ Len(script) = 0
    /\ result = "False"

====
